---------------------------- MODULE Spec2Model ----------------------------
(***************************************************************************)
(* AutoFoundr scaffold: the FastAPI mock generator (backend/main.py), the  *)
(* Next.js proxy route (pages/api/generate.js) and the Builder form        *)
(* (components/Builder.jsx).                                               *)
(*                                                                         *)
(* Text is a sequence of characters, each character a one-character        *)
(* string; "u2014" stands for the single character EM DASH.                *)
(***************************************************************************)
EXTENDS Integers, Sequences, FiniteSets, TLC

\* ------------------------------------------------------------------ bounds

\* Every text of at most MaxLen characters over Alphabet is an input phrase.
MaxLen == 3
\* First tokens of TruncLen - MaxOver .. TruncLen + MaxOver characters are inputs.
MaxOver == 2
\* Requests to the proxy that may be open at the same time.
MaxInFlight == 2

\* ------------------------------------------------- Python text operations

LowerCase ==
  <<"a","b","c","d","e","f","g","h","i","j","k","l","m","n","o","p","q","r","s","t",
     "u","v","w","x","y","z">>

UpperCase ==
  <<"A","B","C","D","E","F","G","H","I","J","K","L","M","N","O","P","Q","R","S","T",
     "U","V","W","X","Y","Z">>

\* str.split() with no argument splits on runs of these (the ASCII ones modelled).
Whitespace == {" ", "\t", "\n", "\r", "\f"}

IsSpace(c) == c \in Whitespace

\* str.upper() / str.lower() of one character.
Upper(c) ==
  IF \E i \in 1..Len(LowerCase) : LowerCase[i] = c
  THEN UpperCase[CHOOSE i \in 1..Len(LowerCase) : LowerCase[i] = c]
  ELSE c

Lower(c) ==
  IF \E i \in 1..Len(UpperCase) : UpperCase[i] = c
  THEN LowerCase[CHOOSE i \in 1..Len(UpperCase) : UpperCase[i] = c]
  ELSE c

\* str.capitalize(): first character upper-cased, all the others lower-cased.
Capitalize(s) ==
  [i \in 1..Len(s) |-> IF i = 1 THEN Upper(s[i]) ELSE Lower(s[i])]

\* s[:n]
Take(s, n) == SubSeq(s, 1, IF Len(s) < n THEN Len(s) ELSE n)

\* s.replace(old, new) for one-character old and new.
Replace(s, old, new) == [i \in 1..Len(s) |-> IF s[i] = old THEN new ELSE s[i]]

\* s.split(): the maximal runs of non-whitespace characters, in order.
RECURSIVE SplitFrom(_, _, _)
SplitFrom(s, i, cur) ==
  IF i > Len(s)
  THEN IF cur = <<>> THEN <<>> ELSE <<cur>>
  ELSE IF IsSpace(s[i])
       THEN (IF cur = <<>> THEN <<>> ELSE <<cur>>) \o SplitFrom(s, i + 1, <<>>)
       ELSE SplitFrom(s, i + 1, Append(cur, s[i]))

Split(s) == SplitFrom(s, 1, <<>>)

\* needle occurs in hay as a contiguous run (Python's `needle in hay`).
Contains(hay, needle) ==
  \E i \in 1..(Len(hay) - Len(needle) + 1) :
    SubSeq(hay, i, i + Len(needle) - 1) = needle

\* c repeated n times.
Rep(c, n) == [i \in 1..n |-> c]

\* ------------------------------------------------------- backend/main.py

\* Optional[str]: None, or a str.
None == [isNone |-> TRUE, str |-> <<>>]

Some(s) == [isNone |-> FALSE, str |-> s]

\* Python truthiness of an Optional[str]: None and '' are falsy.
Truthy(o) == ~o.isNone /\ o.str # <<>>

\* A call's outcome: a returned value, or a raised exception.
Returned(v) == [ok |-> TRUE, val |-> v]

Raised(e) == [ok |-> FALSE, exc |-> e]

DefaultIdea ==
  <<"c","o","o","l"," ","p","r","o","d","u","c","t">>

Parts ==
  << <<"C","o">>, <<"L","a","b">>, <<"W","o","r","k","s">>, <<"C","r","a","f","t">>,
     <<"S","t","u","d","i","o">>, <<"G","o","o","d","s">>, <<"P","e","a","k">>,
     <<"R","o","o","t">> >>

\* The slice bound of mock_brand_name.
TruncLen == 30

\* mock_brand_name with the slice applied to the token before the suffix is added.
mock_brand_name_cut_first(base, k) ==
  IF Split(base) = <<>>
  THEN Raised("IndexError")
  ELSE Returned(Take(Capitalize(Split(base)[1]), TruncLen) \o Parts[k])

\* mock_brand_name(base); k is the index random.choice draws in parts.
\* base.split()[0] raises IndexError when split() returns the empty list.
mock_brand_name(base, k) ==
  IF Split(base) = <<>>
  THEN Raised("IndexError")
  ELSE Returned(Take(Capitalize(Split(base)[1]) \o Parts[k], TruncLen))

LogoPrefix ==
  <<"h","t","t","p","s",":","/","/","v","i","a",".","p","l","a","c","e","h","o","l",
     "d","e","r",".","c","o","m","/","2","5","6","x","2","5","6",".","p","n","g",
     "?","t","e","x","t","=">>

\* mock_logo_url that interpolates the phrase as it is.
mock_logo_url_raw(base) == LogoPrefix \o base

mock_logo_url(base) == LogoPrefix \o Replace(base, " ", "+")

TitleSuffix ==
  <<" ","u2014"," ","P","r","e","m","i","u","m"," ","E","d","i","t","i","o","n">>

mock_title(base) == Capitalize(base) \o TitleSuffix

DescPrefix ==
  <<"T","h","e"," ">>

DescSuffix ==
  <<" ","d","e","s","i","g","n","e","d"," ","f","o","r"," ","p","e","o","p","l","e",
     " ","w","h","o"," ","w","a","n","t"," ","q","u","a","l","i","t","y"," ","a",
     "n","d"," ","s","u","s","t","a","i","n","a","b","i","l","i","t","y","."," ",
     "H","a","n","d","c","r","a","f","t","e","d"," ","a","n","d"," ","t","e","s",
     "t","e","d",".">>

mock_description(base) == DescPrefix \o base \o DescSuffix

\* The floats 19.99, 24.99, 29.99, 49.99 as IEEE doubles, in millionths rounded
\* down: the doubles are 19.98999999999999843..., 24.98999999999999843...,
\* 29.98999999999999843... and 49.99000000000000198...
Prices == <<19989999, 24989999, 29989999, 49990000>>

Digits == <<"0","1","2","3","4","5","6","7","8","9">>

\* The decimal digits of a natural number.
RECURSIVE IntText(_)
IntText(n) ==
  IF n < 10 THEN <<Digits[n + 1]>> ELSE IntText(n \div 10) \o <<Digits[(n % 10) + 1]>>

\* Hundredths of a value given in millionths, cut instead of rounded.
HundredthsTrunc(v) == v \div 10000

\* Hundredths of a value given in millionths, rounded to nearest ('.2f').
Hundredths(v) == (v + 5000) \div 10000

\* f'{p:.2f}': the integer part, a point, and exactly two decimals.
Format2f(v) ==
  LET h == Hundredths(v)
  IN  IntText(h \div 100) \o <<".">> \o <<Digits[((h \div 10) % 10) + 1]>>
        \o <<Digits[(h % 10) + 1]>>

\* mock_price(); j is the index random.choice draws in the price list.
mock_price(j) == <<"$">> \o Format2f(Prices[j])

Ad1Prefix ==
  <<"T","r","y"," ","o","u","r"," ">>

Ad1Suffix ==
  <<" ","u2014"," ","l","i","m","i","t","e","d"," ","l","a","u","n","c","h"," ","o",
     "f","f","e","r","!">>

Ad2Prefix ==
  <<"W","h","y"," ","o","u","r"," ">>

Ad2Suffix ==
  <<" ","i","s"," ","b","e","t","t","e","r",":"," ","s","u","s","t","a","i","n","a",
     "b","l","e",","," ","d","u","r","a","b","l","e",","," ","s","t","y","l","i",
     "s","h",".">>

Ad3Prefix ==
  <<"S","e","e"," ","h","o","w"," ","o","u","r"," ">>

Ad3Suffix ==
  <<" ","f","i","t","s"," ","y","o","u","r"," ","l","i","f","e"," ","i","n"," ","1",
     "5"," ","s","e","c","o","n","d","s",".">>

mock_ads(base) ==
  << Ad1Prefix \o base \o Ad1Suffix,
     Ad2Prefix \o base \o Ad2Suffix,
     Ad3Prefix \o base \o Ad3Suffix >>

\* base = req.idea or 'cool product'
BaseOf(reqIdea) == IF Truthy(reqIdea) THEN reqIdea.str ELSE DefaultIdea

\* generate(req): the bundle, or the exception a helper raised. k and j are the
\* two draws from the random source.
generate(reqIdea, k, j) ==
  LET base == BaseOf(reqIdea)
      name == mock_brand_name(base, k)
  IN  IF ~name.ok
      THEN name
      ELSE Returned([brand   |-> [name |-> name.val, logo |-> mock_logo_url(base)],
                     product |-> [title       |-> mock_title(base),
                                  description |-> mock_description(base),
                                  price       |-> mock_price(j)],
                     ads     |-> mock_ads(base)])

\* ------------------------------------------------------- the input phrases

Alphabet == {"a", "B", " ", "\t", "-"}

RECURSIVE TextsUpTo(_)
TextsUpTo(n) ==
  IF n = 0 THEN {<<>>}
  ELSE LET shorter == TextsUpTo(n - 1)
       IN  shorter \cup {Append(s, c) : s \in {t \in shorter : Len(t) = n - 1},
                                        c \in Alphabet}

\* Phrases whose first token is about TruncLen characters long.
LongPhrases ==
  {lead \o Rep(c, n) \o tail :
     lead \in {<<>>, <<" ">>},
     c \in {"a", "B"},
     n \in (TruncLen - MaxOver)..(TruncLen + MaxOver),
     tail \in {<<>>, <<" ", "b">>, <<"\t", "b">>}}

Phrases == TextsUpTo(MaxLen) \cup LongPhrases

Ideas == {None} \cup {Some(s) : s \in Phrases}

\* ------------------------------------------------------------------ state

VARIABLES
  genReq,     \* the GenerateRequest.idea of a call to generate() on its own
  genPc,      \* "ready" | "returned" | "raised"
  genOut,     \* the outcome of that call
  idea,       \* Builder: useState('')
  loading,    \* Builder: useState(false)
  result,     \* Builder: useState(null)
  alerts,     \* alert() calls since the last submit
  crashed,    \* the last render of Builder threw
  lastPress,  \* history: the last button pressed, "none" | "submit" | "reset"
  reqs        \* the open requests to /api/generate, by slot

genVars == <<genReq, genPc, genOut>>

uiVars == <<idea, loading, result, alerts, crashed, lastPress>>

vars == <<genReq, genPc, genOut, idea, loading, result, alerts, crashed, lastPress, reqs>>

\* --------------------------------------------------------------- JSON values

\* JavaScript null, and the absent body of a response.
Null == [null |-> TRUE]

\* { error: 'backend proxy failed' }
ErrorBody == [error |-> "backend proxy failed"]

\* FastAPI's body of a 422 answer, { detail: [...] }.
ValidationBody == [detail |-> "validation error"]

IsBundle(d) == DOMAIN d = {"brand", "product", "ads"}

\* A request body: valid when it matches GenerateRequest ({} or {idea: <str>});
\* the other one stands for a body such as {"idea": ["x"]}.
ValidBody(reqIdea) == [valid |-> TRUE, idea |-> reqIdea]

InvalidBody == [valid |-> FALSE, idea |-> None]

\* ---------------------------------------------------------- the end-to-end inputs

\* The phrases typed into the form: empty, blank, and a two-word idea.
UiPhrases == {<<>>, <<" ">>, <<"a", " ", "b">>}

\* What a client other than the form posts to the proxy.
DirectBodies == {ValidBody(None), InvalidBody}

Methods == {"POST", "GET"}

\* The draws of the random source enumerated end to end (suffix index, price index).
Draws == {<<1, 1>>, <<5, 4>>}

Slots == 1..MaxInFlight

Free == [pc |-> "free"]

NoReply == [reached |-> FALSE, status |-> 0, json |-> FALSE, data |-> Null]

\* A request just sent to /api/generate.
NewRequest(origin, method, body) ==
  [pc |-> "sent", origin |-> origin, method |-> method, body |-> body,
   backendCalls |-> 0, responses |-> 0, status |-> 0, hasJson |-> FALSE,
   data |-> Null, reply |-> NoReply]

IsFree(i) == reqs[i].pc = "free"

\* New requests take the lowest free slot.
LowestFree(i) == IsFree(i) /\ \A j \in Slots : j < i => ~IsFree(j)

\* The handleGenerate invocations that have not finished.
UiOpen == {i \in Slots : ~IsFree(i) /\ reqs[i].origin = "ui"}

\* ---------------------------------------------------------------- the backend

\* What the proxy's fetch of POST <backend>/generate can end in: the backend is
\* unreachable; the body fails validation (422, a JSON body); generate() returns
\* (200, the bundle); generate() raises (500, the plain text "Internal Server
\* Error").
BackendReplies(body) ==
  {NoReply} \cup
  (IF ~body.valid
   THEN {[reached |-> TRUE, status |-> 422, json |-> TRUE, data |-> ValidationBody]}
   ELSE {IF generate(body.idea, d[1], d[2]).ok
         THEN [reached |-> TRUE, status |-> 200, json |-> TRUE,
               data |-> generate(body.idea, d[1], d[2]).val]
         ELSE [reached |-> TRUE, status |-> 500, json |-> FALSE, data |-> Null]
         : d \in Draws})

\* ------------------------------------------------- pages/api/generate.js

\* res.status(s).json(d) / res.status(s).end()
Respond(r, s, isJson, d) ==
  [r EXCEPT !.pc = "responded", !.status = s, !.hasJson = isJson, !.data = d,
            !.responses = @ + 1]

\* handler that sends 405 and goes on to the fetch (the return left out).
HandlerStartNoReturn(i) ==
  /\ reqs[i].pc = "sent"
  /\ reqs' = [reqs EXCEPT ![i] =
       IF reqs[i].method # "POST"
       THEN [Respond(reqs[i], 405, FALSE, Null) EXCEPT !.pc = "fetch",
                                                        !.backendCalls = @ + 1]
       ELSE [reqs[i] EXCEPT !.pc = "fetch", !.backendCalls = @ + 1]]
  /\ UNCHANGED <<genVars, uiVars>>

\* handler(req, res) up to its first await: 405 for a non-POST, else the fetch.
HandlerStart(i) ==
  /\ reqs[i].pc = "sent"
  /\ reqs' = [reqs EXCEPT ![i] =
       IF reqs[i].method # "POST"
       THEN Respond(reqs[i], 405, FALSE, Null)
       ELSE [reqs[i] EXCEPT !.pc = "fetch", !.backendCalls = @ + 1]]
  /\ UNCHANGED <<genVars, uiVars>>

\* await fetch(backendUrl, ...) settles: rejected -> catch -> 500; else r.json().
HandlerFetchSettled(i) ==
  /\ reqs[i].pc = "fetch"
  /\ \E reply \in BackendReplies(reqs[i].body) :
       reqs' = [reqs EXCEPT ![i] =
         IF ~reply.reached
         THEN [Respond(reqs[i], 500, TRUE, ErrorBody) EXCEPT !.reply = reply]
         ELSE [reqs[i] EXCEPT !.pc = "json", !.reply = reply]]
  /\ UNCHANGED <<genVars, uiVars>>

\* await r.json() settles: parsed -> res.status(200).json(data); else catch -> 500.
HandlerJsonSettled(i) ==
  /\ reqs[i].pc = "json"
  /\ reqs' = [reqs EXCEPT ![i] =
       IF reqs[i].reply.json
       THEN Respond(reqs[i], 200, TRUE, reqs[i].reply.data)
       ELSE Respond(reqs[i], 500, TRUE, ErrorBody)]
  /\ UNCHANGED <<genVars, uiVars>>

\* A client other than the form sends a request to the proxy.
DirectRequest(i) ==
  /\ LowestFree(i)
  /\ \E m \in Methods, b \in DirectBodies :
       reqs' = [reqs EXCEPT ![i] = NewRequest("direct", m, b)]
  /\ UNCHANGED <<genVars, uiVars>>

\* That client receives the response.
DirectDeliver(i) ==
  /\ reqs[i].pc = "responded"
  /\ reqs[i].origin = "direct"
  /\ reqs' = [reqs EXCEPT ![i] = Free]
  /\ UNCHANGED <<genVars, uiVars>>

\* --------------------------------------------- components/Builder.jsx

\* The JSX under {result && (...)} reads result.brand.name, result.product.title
\* and result.ads.map: it throws when result is an object without them.
RenderThrows(r) == r # Null /\ ~IsBundle(r)

\* A form whose submit button is never disabled.
SubmitEnabledAlways == TRUE

\* <button type="submit" disabled={loading}>
SubmitEnabled == ~loading

\* onChange={(e) => setIdea(e.target.value)}
SetIdea ==
  /\ ~crashed
  /\ \E s \in UiPhrases : idea' = s
  /\ UNCHANGED <<genVars, loading, result, alerts, crashed, lastPress, reqs>>

\* handleGenerate up to its first await: setLoading(true), setResult(null), fetch.
HandleGenerate(i) ==
  /\ ~crashed
  /\ SubmitEnabled
  /\ LowestFree(i)
  /\ loading' = TRUE
  /\ result' = Null
  /\ reqs' = [reqs EXCEPT ![i] = NewRequest("ui", "POST", ValidBody(Some(idea)))]
  /\ alerts' = 0
  /\ lastPress' = "submit"
  /\ UNCHANGED <<genVars, idea, crashed>>

\* await fetch('/api/generate') rejects (the proxy is not reached): catch -> alert,
\* finally -> setLoading(false).
UiFetchRejected(i) ==
  /\ reqs[i].pc = "sent"
  /\ reqs[i].origin = "ui"
  /\ alerts' = alerts + 1
  /\ loading' = FALSE
  /\ crashed' = (crashed \/ RenderThrows(result))
  /\ reqs' = [reqs EXCEPT ![i] = Free]
  /\ UNCHANGED <<genVars, idea, result, lastPress>>

\* await fetch('/api/generate') resolves with the proxy's response, whatever its
\* status; next comes await resp.json().
UiFetchResolved(i) ==
  /\ reqs[i].pc = "responded"
  /\ reqs[i].origin = "ui"
  /\ reqs' = [reqs EXCEPT ![i].pc = "uiJson"]
  /\ UNCHANGED <<genVars, uiVars>>

\* await resp.json() settles: parsed -> setResult(data); else catch -> alert;
\* finally -> setLoading(false); then Builder renders again.
UiJsonSettled(i) ==
  /\ reqs[i].pc = "uiJson"
  /\ IF reqs[i].hasJson
     THEN /\ result' = reqs[i].data
          /\ alerts' = alerts
     ELSE /\ result' = result
          /\ alerts' = alerts + 1
  /\ loading' = FALSE
  /\ crashed' = (crashed \/ RenderThrows(result'))
  /\ reqs' = [reqs EXCEPT ![i] = Free]
  /\ UNCHANGED <<genVars, idea, lastPress>>

\* Reset that clears the input only.
ResetInputOnly ==
  /\ ~crashed
  /\ idea' = <<>>
  /\ lastPress' = "reset"
  /\ UNCHANGED <<genVars, loading, result, alerts, crashed, reqs>>

\* onClick={() => { setIdea(''); setResult(null) }}
Reset ==
  /\ ~crashed
  /\ idea' = <<>>
  /\ result' = Null
  /\ lastPress' = "reset"
  /\ UNCHANGED <<genVars, loading, alerts, crashed, reqs>>

\* ------------------------------------------------------- the specifications

InitUi ==
  /\ idea = <<>>
  /\ loading = FALSE
  /\ result = Null
  /\ alerts = 0
  /\ crashed = FALSE
  /\ lastPress = "none"
  /\ reqs = [i \in Slots |-> Free]

InitGenIdle ==
  /\ genReq = None
  /\ genPc = "ready"
  /\ genOut = Raised("none")

\* The form, the proxy and the backend, end to end.
Init == InitUi /\ InitGenIdle

Next ==
  \/ SetIdea
  \/ Reset
  \/ \E i \in Slots : HandleGenerate(i)
  \/ \E i \in Slots : UiFetchRejected(i)
  \/ \E i \in Slots : UiFetchResolved(i)
  \/ \E i \in Slots : UiJsonSettled(i)
  \/ \E i \in Slots : DirectRequest(i)
  \/ \E i \in Slots : DirectDeliver(i)
  \/ \E i \in Slots : HandlerStart(i)
  \/ \E i \in Slots : HandlerFetchSettled(i)
  \/ \E i \in Slots : HandlerJsonSettled(i)

Spec == Init /\ [][Next]_vars

\* generate() called on its own, on every input phrase.
InitGen ==
  /\ genReq \in Ideas
  /\ genPc = "ready"
  /\ genOut = Raised("none")
  /\ InitUi

\* One call of generate(req) that returns a bundle.
GenerateReturns ==
  /\ genPc = "ready"
  /\ \E k \in 1..Len(Parts), j \in 1..Len(Prices) :
       /\ generate(genReq, k, j).ok
       /\ genOut' = generate(genReq, k, j)
  /\ genPc' = "returned"
  /\ UNCHANGED <<genReq, uiVars, reqs>>

\* One call of generate(req) that ends in an exception.
GenerateRaises ==
  /\ genPc = "ready"
  /\ \E k \in 1..Len(Parts), j \in 1..Len(Prices) :
       /\ ~generate(genReq, k, j).ok
       /\ genOut' = generate(genReq, k, j)
  /\ genPc' = "raised"
  /\ UNCHANGED <<genReq, uiVars, reqs>>

NextGen == GenerateReturns \/ GenerateRaises

SpecGen == InitGen /\ [][NextGen]_vars

\* ------------------------------------------------ properties of generate()

\* The phrase generate() works on in the current call.
GenBase == BaseOf(genReq)

\* The phrase the request supplies: the idea, or 'cool product' when it is absent.
SuppliedPhrase == IF genReq.isNone THEN DefaultIdea ELSE genReq.str

\* The part of the returned logo URL after the fixed prefix.
LogoText ==
  SubSeq(genOut.val.brand.logo, Len(LogoPrefix) + 1, Len(genOut.val.brand.logo))

\* base[a..b] is the first whitespace-delimited token of base.
IsFirstToken(base, a, b) ==
  /\ a <= b
  /\ \A i \in 1..(a - 1) : IsSpace(base[i])
  /\ \A i \in a..b : ~IsSpace(base[i])
  /\ b = Len(base) \/ IsSpace(base[b + 1])

\* C1: generate() has no error outcome: whatever the idea (absent, empty, blank or
\* any other string), the call returns a bundle and never raises.
C1_GenerateNeverRaises ==
  genPc # "ready" => (genPc = "returned" /\ genOut.ok)

\* C4 as stated: the logo is the placeholder prefix followed by the phrase with
\* every whitespace character (space, tab, newline, ...) replaced by '+', so the
\* text part holds no whitespace character.
C4_LogoReplacesAllWhitespace ==
  genPc = "returned" =>
    /\ SubSeq(genOut.val.brand.logo, 1, Len(LogoPrefix)) = LogoPrefix
    /\ Len(LogoText) = Len(GenBase)
    /\ \A i \in 1..Len(GenBase) :
         LogoText[i] = (IF IsSpace(GenBase[i]) THEN "+" ELSE GenBase[i])
    /\ \A i \in 1..Len(LogoText) : ~IsSpace(LogoText[i])

\* C4 amended: the logo is the placeholder prefix followed by the phrase with every
\* space character (U+0020) replaced by '+' and every other character, tabs and
\* newlines included, kept as it is; the text part holds no space character.
C4_LogoReplacesSpaces ==
  genPc = "returned" =>
    /\ SubSeq(genOut.val.brand.logo, 1, Len(LogoPrefix)) = LogoPrefix
    /\ Len(LogoText) = Len(GenBase)
    /\ \A i \in 1..Len(GenBase) :
         LogoText[i] = (IF GenBase[i] = " " THEN "+" ELSE GenBase[i])
    /\ \A i \in 1..Len(LogoText) : LogoText[i] # " "

\* A returned logo for a phrase that holds a space and a tab: the space became
\* '+', the tab is still there.
C4_Witness ==
  /\ genPc = "returned"
  /\ \E i \in 1..Len(GenBase) : GenBase[i] = " "
  /\ \E i \in 1..Len(GenBase) : GenBase[i] = "\t" /\ LogoText[i] = "\t"
  /\ \E i \in 1..Len(LogoText) : LogoText[i] = "+"

\* The 8 suffix words.
SuffixWords ==
  { <<"C","o">>, <<"L","a","b">>, <<"W","o","r","k","s">>, <<"C","r","a","f","t">>,
    <<"S","t","u","d","i","o">>, <<"G","o","o","d","s">>, <<"P","e","a","k">>,
    <<"R","o","o","t">> }

\* C5: for a phrase with at least one token the brand name has at most 30
\* characters and is the first 30 characters of the capitalized first token
\* followed by one of the 8 suffixes; a first token of 30 or more characters
\* leaves no room for any suffix character.
C5_BrandNameShape ==
  genPc = "returned" =>
    \E a \in 1..Len(GenBase), b \in 1..Len(GenBase) :
      /\ IsFirstToken(GenBase, a, b)
      /\ LET tok  == Capitalize(SubSeq(GenBase, a, b))
             name == genOut.val.brand.name
         IN  /\ Len(name) <= TruncLen
             /\ Cardinality(SuffixWords) = 8
             /\ \E w \in SuffixWords :
                  LET full == tok \o w
                  IN  name = SubSeq(full, 1,
                                    IF Len(full) < TruncLen THEN Len(full) ELSE TruncLen)
             /\ Len(tok) >= TruncLen => name = SubSeq(tok, 1, TruncLen)

\* A returned name of exactly 30 characters for a first token of 30 or more.
C5_Witness ==
  /\ genPc = "returned"
  /\ Len(Split(GenBase)[1]) >= TruncLen
  /\ Len(genOut.val.brand.name) = TruncLen

\* C6: every accepted request (idea absent, empty or any string) is answered with
\* one brand, one product and exactly 3 ads in the template order, each holding
\* the supplied phrase ('cool product' when the idea is absent).
C6_ResponseShape ==
  genPc # "ready" =>
    /\ genPc = "returned"
    /\ genOut.ok
    /\ DOMAIN genOut.val = {"brand", "product", "ads"}
    /\ Len(genOut.val.ads) = 3
    /\ SubSeq(genOut.val.ads[1], 1, Len(Ad1Prefix)) = Ad1Prefix
    /\ SubSeq(genOut.val.ads[2], 1, Len(Ad2Prefix)) = Ad2Prefix
    /\ SubSeq(genOut.val.ads[3], 1, Len(Ad3Prefix)) = Ad3Prefix
    /\ \A n \in 1..3 : Contains(genOut.val.ads[n], SuppliedPhrase)

PriceTexts ==
  { <<"$","1","9",".","9","9">>, <<"$","2","4",".","9","9">>,
    <<"$","2","9",".","9","9">>, <<"$","4","9",".","9","9">> }

\* C7: the price of every response is one of '$19.99', '$24.99', '$29.99',
\* '$49.99', whatever the phrase and the random draw.
C7_PriceIsOneOfFour ==
  genPc = "returned" => genOut.val.product.price \in PriceTexts

\* A response to a supplied idea whose price is '$49.99'.
C7_Witness ==
  /\ genPc = "returned"
  /\ Truthy(genReq)
  /\ genOut.val.product.price = <<"$","4","9",".","9","9">>

\* ---------------------------------------------- properties of the proxy route

\* The proxy has answered request i.
Answered(i) == reqs[i].pc \in {"responded", "uiJson"}

\* The backend call of request i yielded a GenerateResponse.
BackendSucceeded(i) ==
  /\ reqs[i].reply.reached
  /\ reqs[i].reply.status = 200
  /\ reqs[i].reply.json
  /\ IsBundle(reqs[i].reply.data)

\* C3: a POST whose backend call did not yield a GenerateResponse (unreachable,
\* non-2xx, unparseable body) is answered 500 {error: 'backend proxy failed'};
\* 200 is answered only with a bundle.
C3_BackendErrorsCollapse ==
  \A i \in Slots :
    (Answered(i) /\ reqs[i].method = "POST") =>
      /\ IF BackendSucceeded(i)
         THEN reqs[i].status = 200 /\ reqs[i].data = reqs[i].reply.data
         ELSE reqs[i].status = 500 /\ reqs[i].data = ErrorBody
      /\ reqs[i].status = 200 => IsBundle(reqs[i].data)

\* C8: a non-POST request is answered 405 without any backend request; a POST
\* causes exactly one backend request; every request gets exactly one response.
C8_OneCallOneResponse ==
  \A i \in Slots :
    ~IsFree(i) =>
      /\ reqs[i].responses = (IF Answered(i) THEN 1 ELSE 0)
      /\ reqs[i].backendCalls =
           (IF reqs[i].method = "POST" /\ reqs[i].pc # "sent" THEN 1 ELSE 0)
      /\ (Answered(i) /\ reqs[i].method # "POST") => reqs[i].status = 405
      /\ (Answered(i) /\ reqs[i].method = "POST") => reqs[i].status \in {200, 500}

\* A GET answered 405 next to a POST answered 500 after its one backend call.
C8_Witness ==
  \E i \in Slots, j \in Slots :
    /\ Answered(i) /\ reqs[i].method = "GET" /\ reqs[i].status = 405
    /\ reqs[i].backendCalls = 0
    /\ Answered(j) /\ reqs[j].method = "POST" /\ reqs[j].status = 500
    /\ reqs[j].backendCalls = 1 /\ reqs[j].responses = 1

\* ------------------------------------------------- properties of the form

\* Slot i holds a handleGenerate invocation that finishes in this step.
UiFinishes(i) ==
  /\ ~IsFree(i)
  /\ reqs[i].origin = "ui"
  /\ reqs'[i].pc = "free"

\* C2: when the backend is unreachable the proxy answers non-200 with a generic
\* error field, and the form then shows exactly one alert and no result and is
\* idle again (loading false), without rendering the error body.
C2_ProxyFailureAlerts ==
  [][\A i \in Slots :
       (UiFinishes(i) /\ reqs[i].pc = "uiJson" /\ ~reqs[i].reply.reached) =>
         /\ reqs[i].status # 200
         /\ "error" \in DOMAIN reqs[i].data
         /\ alerts' = 1
         /\ result' = Null
         /\ loading' = FALSE
         /\ ~crashed']_vars

C10_ResetIsStable ==
  [][/\ (lastPress # "reset" /\ lastPress' = "reset") =>
          (idea' = <<>> /\ result' = Null /\ loading' = loading)
     /\ lastPress' = "reset" => result' = Null]_vars

\* C10 amended: Reset clears input and result and leaves loading alone; result
\* then stays null until the next submit when no request of the form is open at
\* the Reset (loading false); the response of a request that is open at the Reset
\* is displayed when it arrives.
C10_ResetClears ==
  [][/\ (lastPress # "reset" /\ lastPress' = "reset") =>
          (idea' = <<>> /\ result' = Null /\ loading' = loading)
     /\ (lastPress = "reset" /\ lastPress' = "reset" /\ ~loading /\ result = Null)
          => result' = Null
     /\ \A i \in Slots :
          (lastPress = "reset" /\ UiFinishes(i) /\ reqs[i].pc = "uiJson") =>
            result' = reqs[i].data]_vars

\* Reset was pressed while a request of the form is open.
C10_Witness ==
  /\ lastPress = "reset"
  /\ loading
  /\ idea = <<>>
  /\ result = Null
  /\ \E i \in UiOpen : reqs[i].pc = "uiJson"

=============================================================================
